---- MODULE Spec2Model ----
(***************************************************************************)
(* Research-AI: the paper-analysis service.                                *)
(*                                                                         *)
(*   research_analyzer.py   search, PDF text, analysis, limitation          *)
(*                          extractor, idea generator, process_papers       *)
(*   api.py                 the Flask routes built on research_analyzer     *)
(*   ai_random_ideas_api.py the second implementation of the routes         *)
(*   app.py                 the image page                                  *)
(*                                                                         *)
(* Text is a sequence of tokens: "sp" a blank, "nl" a line break, and       *)
(* words.  A word stands for itself: "limitation" and "Scope" contain a     *)
(* trigger keyword (the second only after lower()), "finding" contains a    *)
(* stop word, "w" contains neither.                                         *)
(***************************************************************************)
EXTENDS Integers, Sequences, FiniteSets, TLC

VARIABLES
    \* ---- extract_limitations_scope applied to a text, then to its result
    epc,            \* "in", "once", "twice"
    analysis_in,    \* the analysis text handed to the extractor
    excerpt,        \* extract_limitations_scope(analysis_in)
    excerpt2,       \* extract_limitations_scope(excerpt)
    \* ---- one request to the service
    app,            \* the Flask application that serves it
    route,          \* the route requested
    body,           \* the JSON body: [topic, num]
    env,            \* the credentials of the process environment
    pc,             \* "recv", "search", "loop", "ret", "done"
    papers,         \* process_papers: the search result
    idx,            \* process_papers: number of the paper visited next (from 1)
    output_lines,   \* process_papers: the transcript lines
    limitations_list, \* process_papers: the excerpts collected
    calls,          \* the components invoked: <<[fn, idx, ok]>>
    net,            \* the external services a request was sent to
    result_list,    \* analyze_papers: the entries of the answer
    printed,        \* what print() wrote to the redirected sys.stdout
    resp,           \* the HTTP response
    \* ---- several /analyze requests in the threads of one process
    sys_stdout,     \* sys.stdout: 0 the stream at startup, t the buffer of thread t
    tpc,            \* where each thread is in analyze
    saved,          \* each thread's local sys_stdout
    buf,            \* each thread's StringIO buffer: who wrote each entry
    closed,         \* whether each thread's buffer is closed
    prints,         \* how many times the components of each thread printed
    transcript,     \* what process_papers returned to each thread
    tresult,        \* the result field each thread answered
    \* ---- the split of one Idea Generator text into ideas
    ipc,            \* "text", "api", "both"
    ideas_text_in,  \* the text the Idea Generator returned
    num_ideas_in,   \* num_ideas of the request
    api_ideas,      \* the summaries api.py answers
    ai_ideas,       \* the summaries ai_random_ideas_api.py answers
    \* ---- /random_ideas from the backend's response on
    gpc,            \* "text", "gaps", "answered"
    gap_out,        \* the outcome of generate_content: ok, and the response text
    gap_env,        \* whether GEMINI_API_KEY is set
    gap_papers,     \* the trending papers found
    gap_count,      \* count of the request
    gap_ideas,      \* what generate_gaps_with_gemini returned
    gideas          \* the ideas /random_ideas answers

evars == <<epc, analysis_in, excerpt, excerpt2>>
mvars == <<app, route, body, env, pc, papers, idx, output_lines,
           limitations_list, result_list, calls, net, printed, resp>>
cvars == <<sys_stdout, tpc, saved, buf, closed, prints, transcript, tresult>>
ivars == <<ipc, ideas_text_in, num_ideas_in, api_ideas, ai_ideas>>
gvars == <<gpc, gap_out, gap_env, gap_papers, gap_count, gap_ideas, gideas>>
vars  == <<evars, mvars, cvars, ivars, gvars>>

----------------------------------------------------------------------------
\* Bounds
MaxTextLen == 4        \* longest analysis text given to the extractor alone
MaxResults == 2        \* most papers a search returns
MaxNumPapers == 2      \* largest num_papers a request asks for
MaxAnalysisLen == 1    \* longest text the generative backend returns in a request
MaxCount == 6          \* largest count a request asks for
NumThreads == 2        \* threads serving /analyze at once
MaxPrints == 1         \* lines the components of one request print
MaxIdeaLen == 7        \* longest Idea Generator text that is split
MaxNumIdeas == 3       \* largest num_ideas of a split
MaxGapLen == 5         \* longest backend response read for research gaps
MaxGapCount == 3       \* largest count of a request whose response is read

----------------------------------------------------------------------------
\* Text
Whitespace == {"sp", "nl"}
Alphabet   == {"sp", "nl", "limitation", "Scope", "finding", "w"}

RECURSIVE TokenSeqs(_, _)
TokenSeqs(alphabet, n) ==
    IF n = 0 THEN {<< >>}
    ELSE LET shorter == TokenSeqs(alphabet, n - 1) IN
         shorter \cup {Append(s, t) : s \in {u \in shorter : Len(u) = n - 1}, t \in alphabet}

\* str.lower() on one word
Lower(tok) == IF tok = "Scope" THEN "scope" ELSE tok

\* research_analyzer.py:104  "limitation" in line.lower() or "scope" in line.lower()
TriggerWords == {"limitation", "scope"}
\* research_analyzer.py:109
StopWords == {"application", "potential", "relationship", "finding", "conclusion"}

\* A slip: the keywords are looked up in the line as it is, not lowered.
HasTriggerExact(line) == \E i \in 1..Len(line) : line[i] \in TriggerWords
HasTrigger(line) == \E i \in 1..Len(line) : Lower(line[i]) \in TriggerWords
HasStop(line)    == \E i \in 1..Len(line) : Lower(line[i]) \in StopWords

\* str.split("\n"): the pieces between line breaks, empty pieces kept
RECURSIVE Split(_)
Split(s) ==
    IF \A i \in 1..Len(s) : s[i] # "nl" THEN <<s>>
    ELSE LET i == CHOOSE k \in 1..Len(s) :
                     s[k] = "nl" /\ \A j \in 1..(k - 1) : s[j] # "nl"
         IN  <<SubSeq(s, 1, i - 1)>> \o Split(SubSeq(s, i + 1, Len(s)))

\* str.splitlines(): as Split, but a final line break opens no new line
SplitLines(s) ==
    LET pieces == Split(s) IN
    IF pieces[Len(pieces)] = << >> THEN SubSeq(pieces, 1, Len(pieces) - 1)
    ELSE pieces

\* sep.join(lines)
RECURSIVE JoinBy(_, _)
JoinBy(sep, lines) ==
    IF Len(lines) = 0 THEN << >>
    ELSE IF Len(lines) = 1 THEN lines[1]
    ELSE lines[1] \o sep \o JoinBy(sep, Tail(lines))
\* "\n".join(lines)
Join(lines) == JoinBy(<<"nl">>, lines)

\* str.strip()
RECURSIVE LStrip(_)
LStrip(s) == IF s # << >> /\ Head(s) \in Whitespace THEN LStrip(Tail(s)) ELSE s
RECURSIVE RStrip(_)
RStrip(s) ==
    IF s # << >> /\ s[Len(s)] \in Whitespace THEN RStrip(SubSeq(s, 1, Len(s) - 1)) ELSE s
Strip(s) == RStrip(LStrip(s))

\* The loop of extract_limitations_scope from line i on; acc is `lines`.
RECURSIVE ScanLines(_, _, _, _)
ScanLines(all, i, capture, acc) ==
    IF i > Len(all) THEN acc
    ELSE LET line == all[i]
             cap  == capture \/ HasTrigger(line)
         IN  IF cap
             THEN IF HasStop(line) THEN Append(acc, line)
                  ELSE ScanLines(all, i + 1, TRUE, Append(acc, line))
             ELSE ScanLines(all, i + 1, FALSE, acc)

\* A slip: the capture starts on the line after the trigger line.
extract_after_trigger(analysis) ==
    LET all == SplitLines(analysis)
        RECURSIVE Scan(_, _, _)
        Scan(i, capture, acc) ==
            IF i > Len(all) THEN acc
            ELSE IF capture
                 THEN IF HasStop(all[i]) THEN Append(acc, all[i])
                      ELSE Scan(i + 1, TRUE, Append(acc, all[i]))
                 ELSE Scan(i + 1, HasTrigger(all[i]), acc)
    IN  Strip(Join(Scan(1, FALSE, << >>)))

extract_limitations_scope(analysis) ==
    Strip(Join(ScanLines(SplitLines(analysis), 1, FALSE, << >>)))

----------------------------------------------------------------------------
\* Python values

\* a JSON field of the request body: absent, the empty string, a string or
\* a number
JAbsent == [t |-> "absent", s |-> "", n |-> 0]
JStr(s) == [t |-> "str", s |-> s, n |-> 0]
JNum(n) == [t |-> "num", s |-> "", n |-> n]

\* data.get(name, default)
GetStr(v, default) == IF v.t = "absent" THEN default ELSE v.s
\* int(data.get(name, default)): int("") raises ValueError
IntRaises(v)       == v.t = "str"
GetInt(v, default) == IF v.t = "absent" THEN default ELSE v.n

Min(a, b) == IF a < b THEN a ELSE b
Max(a, b) == IF a > b THEN a ELSE b

\* s[:n]
PySlice(s, n) ==
    IF n >= 0 THEN SubSeq(s, 1, Min(n, Len(s)))
    ELSE SubSeq(s, 1, Max(Len(s) + n, 0))

\* a or b, on strings
PyOr(a, b) == IF a # "" THEN a ELSE b

\* print(x) appends x and a line break to sys.stdout
WriteLine(x) == x \o <<"nl">>

NoResp == [status |-> 0, result |-> << >>, papers |-> << >>,
           ideas |-> << >>, images |-> << >>]
Status500 == [NoResp EXCEPT !.status = 500]

----------------------------------------------------------------------------
\* The external services and their outcomes

Envs == [CORE_API_KEY : BOOLEAN, GEMINI_API_KEY : BOOLEAN, HF_API_KEY : BOOLEAN]

\* a hit of the paper search; "" is an absent or empty field
Paper(url, downloadUrl, fullText) ==
    [title |-> "T", url |-> url, downloadUrl |-> downloadUrl, fullText |-> fullText]
PaperTypes ==
    {Paper("", "", << >>), Paper("u", "", << >>), Paper("", "d", << >>),
     Paper("", "", <<"w">>), Paper("u", "d", <<"w">>)}
PaperLists == UNION {[1..n -> PaperTypes] : n \in 0..MaxResults}

SearchOutcomes ==
    [kind : {"ok"}, results : PaperLists]
    \cup [kind : {"http_500", "http_error", "error"}, results : {<< >>}]

\* the download and parse of a PDF: text, a PDF without text, or a failure
ExtractOutcomes ==
    {[ok |-> TRUE, text |-> <<"w">>], [ok |-> TRUE, text |-> << >>],
     [ok |-> FALSE, text |-> << >>]}

\* generate_content: a response text, or an exception with its message
BackendAlphabet == {"limitation", "w"}
BackendOutcomes == [ok : BOOLEAN, text : TokenSeqs(BackendAlphabet, MaxAnalysisLen)]

----------------------------------------------------------------------------
\* research_analyzer.py

\* search_core_papers: the papers, what it printed, whether a request was
\* sent, whether it raised
\* A slip: the errors of the request leave search_core_papers.
search_core_papers_raising(query, out) ==
    [raised |-> query = "" \/ out.kind # "ok", papers |-> out.results,
     log |-> << >>, sent |-> query # ""]

search_core_papers(query, out) ==
    IF query = ""
    THEN [raised |-> TRUE, papers |-> << >>, log |-> << >>, sent |-> FALSE]
    ELSE IF out.kind = "ok"
    THEN [raised |-> FALSE, papers |-> out.results, log |-> << >>, sent |-> TRUE]
    ELSE IF out.kind = "http_500"
    THEN [raised |-> FALSE, papers |-> << >>, sent |-> TRUE,
          log |-> WriteLine(<<"nl", "CORE API error:">>)
                  \o WriteLine(<<"The CORE API server encountered an error.">>)]
    ELSE IF out.kind = "http_error"
    THEN [raised |-> FALSE, papers |-> << >>, sent |-> TRUE,
          log |-> WriteLine(<<"nl", "CORE API error:">>)
                  \o WriteLine(<<"Response content:">>)]
    ELSE [raised |-> FALSE, papers |-> << >>, sent |-> TRUE,
          log |-> WriteLine(<<"nl", "Unexpected error contacting CORE API:">>)]

\* A slip: the errors of the download leave extract_text_from_pdf.
extract_text_from_pdf_raising(url, out) ==
    [raised |-> ~out.ok, text |-> out.text, log |-> << >>]

extract_text_from_pdf(url, out) ==
    IF out.ok THEN [raised |-> FALSE, text |-> out.text, log |-> << >>]
    ELSE [raised |-> FALSE, text |-> << >>,
          log |-> WriteLine(<<"Error extracting PDF text from", url>>)]

\* A slip: the backend's exception leaves analyze_with_gemini.
analyze_with_gemini_raising(text, out) ==
    [raised |-> ~out.ok, text |-> out.text]

analyze_with_gemini(text, out) ==
    [raised |-> FALSE,
     text |-> IF out.ok THEN out.text
              ELSE <<"Error analyzing with Gemini:">> \o out.text]

generate_new_ideas(limitations_text, out) ==
    IF out.ok THEN out.text ELSE <<"Error generating new ideas:">> \o out.text

elaborate_idea(out) ==
    IF out.ok THEN out.text ELSE <<"Error elaborating idea:">> \o out.text

\* the transcript lines of process_papers
NoPapersLine == <<"nl", "No papers found for your topic. Try a different search term.">>
FoundLine(n, limit) ==
    <<"nl", "Found", ToString(n), "relevant papers. Analyzing top", ToString(limit)>>
HeaderLine(i, limit) ==
    <<"nl", "=====", "nl", "Analyzing paper", ToString(i), "/", ToString(limit)>>
TitleLine(paper) == <<"Title:", paper.title>>
LinkLine(paper) ==
    LET paper_url == PyOr(paper.url, paper.downloadUrl) IN
    IF paper_url # "" THEN <<"Link:", paper_url>> ELSE <<"Link: Not available">>
AnalysisLine(a) == <<"nl", "Analysis:", "nl">> \o a
SkippedLine == <<"nl", "Skipped: Full text not available for analysis">>
BannerLine == <<"nl", "=====">>
GeneratingLine == <<"Generating new research ideas based on identified gaps...">>
SuggestedLine == <<"nl", "Suggested Research Ideas:", "nl">>
NoIdeasLine == <<"nl", "Could not extract limitations/scope from the analyzed papers. No new ideas generated.">>
ErrorLine == <<"nl", "Error processing papers:">>

\* A slip: an empty search result is not noticed.
NoPapersNever(ps) == FALSE
\* process_papers: if not papers
NoPapers(ps) == Len(ps) = 0

\* A slip: every paper is taken to have text.
HasTextAlways(text) == TRUE
\* process_papers: if text
HasText(text) == text # << >>

\* A slip: the idea generator runs whatever was collected.
ShouldGenerateAlways(lims) == TRUE
\* process_papers: if limitations_list
ShouldGenerate(lims) == lims # << >>

\* A slip: the link line is written before the title line.
PaperHeadLinkFirst(paper, i, limit) ==
    <<HeaderLine(i, limit), LinkLine(paper), TitleLine(paper)>>

\* process_papers, lines 183-190: the lines that open a paper's section
PaperHead(paper, i, limit) ==
    <<HeaderLine(i, limit), TitleLine(paper), LinkLine(paper)>>

\* A slip: the text is downloaded whenever there is a download URL.
NeedsDownloadWithUrl(paper) == paper.downloadUrl # ""

\* process_papers, lines 193-196, and analyze_papers, lines 119-122: the
\* Text Extractor is called for this paper
NeedsDownload(paper) == paper.fullText = << >> /\ paper.downloadUrl # ""

\* papers[:num_papers]
Visited(default) == PySlice(papers, GetInt(body.num, default))

\* a call of component fn for paper i; ok: it returned normally and, for
\* extract_text_from_pdf, with a text
Call(fn, i, ok) == [fn |-> fn, idx |-> i, ok |-> ok]

----------------------------------------------------------------------------
\* api.py: /analyze, and process_papers run by it

\* analyze, lines 77-86: read the body, redirect sys.stdout to a buffer
analyze ==
    /\ pc = "recv" /\ app = "api" /\ route = "analyze"
    /\ IF IntRaises(body.num)
       THEN resp' = Status500 /\ pc' = "done"
       ELSE resp' = resp /\ pc' = "search"
    /\ UNCHANGED <<app, route, body, env, papers, idx, output_lines,
                   limitations_list, result_list, calls, net, printed>>
    /\ UNCHANGED <<evars, cvars, ivars, gvars>>

\* process_papers, lines 171-178 and the handler of line 221
process_papers_search ==
    /\ pc = "search"
    /\ \E out \in SearchOutcomes :
          LET query == GetStr(body.topic, "")
              num_papers == GetInt(body.num, 10)
              r == search_core_papers(query, out)
          IN  /\ printed' = printed \o r.log
              /\ net' = IF r.sent THEN net \cup {"core"} ELSE net
              /\ calls' = Append(calls, Call("search_core_papers", 0, ~r.raised))
              /\ IF r.raised
                 THEN /\ output_lines' = <<ErrorLine>>
                      /\ pc' = "ret"
                      /\ UNCHANGED <<papers, idx>>
                 ELSE IF NoPapers(r.papers)
                 THEN /\ output_lines' = <<NoPapersLine>>
                      /\ pc' = "ret"
                      /\ UNCHANGED <<papers, idx>>
                 ELSE /\ output_lines' = <<FoundLine(Len(r.papers), num_papers)>>
                      /\ papers' = r.papers
                      /\ idx' = 1
                      /\ pc' = "loop"
    /\ UNCHANGED <<app, route, body, env, limitations_list, result_list, resp>>
    /\ UNCHANGED <<evars, cvars, ivars, gvars>>

\* process_papers, lines 182-208: one turn of the loop
process_papers_visit ==
    /\ pc = "loop"
    /\ idx <= Len(Visited(10))
    /\ \E ext \in ExtractOutcomes, an \in BackendOutcomes :
          LET paper == Visited(10)[idx]
              head == PaperHead(paper, idx, GetInt(body.num, 10))
              downloaded == NeedsDownload(paper)
              dl == extract_text_from_pdf(paper.downloadUrl, ext)
              text == IF downloaded THEN dl.text ELSE paper.fullText
              a == analyze_with_gemini(text, an)
              lim_scope == extract_limitations_scope(a.text)
              dlcall == IF downloaded
                        THEN <<Call("extract_text_from_pdf", idx, dl.text # << >>)>>
                        ELSE << >>
          IN  /\ printed' = IF downloaded THEN printed \o dl.log ELSE printed
              /\ IF downloaded /\ dl.raised
                 THEN /\ net' = net \cup {"pdf"}
                      /\ output_lines' = output_lines \o head \o <<ErrorLine>>
                      /\ calls' = calls \o dlcall
                      /\ pc' = "ret"
                      /\ UNCHANGED <<idx, limitations_list>>
                 ELSE IF HasText(text)
                 THEN /\ net' = net \cup (IF downloaded THEN {"pdf"} ELSE {})
                                    \cup {"gemini"}
                      /\ IF a.raised
                         THEN /\ output_lines' = output_lines \o head \o <<ErrorLine>>
                              /\ calls' = calls \o dlcall
                                     \o <<Call("analyze_with_gemini", idx, FALSE)>>
                              /\ pc' = "ret"
                              /\ UNCHANGED <<idx, limitations_list>>
                         ELSE /\ output_lines' =
                                     output_lines \o head \o <<AnalysisLine(a.text)>>
                              /\ calls' = calls \o dlcall
                                     \o <<Call("analyze_with_gemini", idx, an.ok),
                                          Call("extract_limitations_scope", idx, TRUE)>>
                              /\ limitations_list' =
                                     IF lim_scope # << >>
                                     THEN Append(limitations_list, lim_scope)
                                     ELSE limitations_list
                              /\ idx' = idx + 1
                              /\ pc' = pc
                 ELSE /\ net' = net \cup (IF downloaded THEN {"pdf"} ELSE {})
                      /\ output_lines' = output_lines \o head \o <<SkippedLine>>
                      /\ calls' = calls \o dlcall
                      /\ idx' = idx + 1
                      /\ UNCHANGED <<pc, limitations_list>>
    /\ UNCHANGED <<app, route, body, env, papers, result_list, resp>>
    /\ UNCHANGED <<evars, cvars, ivars, gvars>>

\* process_papers, lines 210-219: after the loop
process_papers_ideas ==
    /\ pc = "loop"
    /\ idx > Len(Visited(10))
    /\ IF ShouldGenerate(limitations_list)
       THEN \E out \in BackendOutcomes :
               LET all_limitations == JoinBy(<<"nl", "nl">>, limitations_list)
                   new_ideas == generate_new_ideas(all_limitations, out)
               IN  /\ output_lines' = output_lines \o
                          <<BannerLine, GeneratingLine, SuggestedLine, new_ideas>>
                   /\ calls' = Append(calls, Call("generate_new_ideas", 0, out.ok))
                   /\ net' = net \cup {"gemini"}
       ELSE /\ output_lines' = Append(output_lines, NoIdeasLine)
            /\ UNCHANGED <<calls, net>>
    /\ pc' = "ret"
    /\ UNCHANGED <<app, route, body, env, papers, idx, limitations_list,
                   result_list, printed, resp>>
    /\ UNCHANGED <<evars, cvars, ivars, gvars>>

\* analyze, lines 96-100: restore sys.stdout, answer
analyze_return ==
    /\ pc = "ret"
    /\ LET result == Join(output_lines)
           printed_output == printed
       IN  resp' = [NoResp EXCEPT !.status = 200,
                       !.result = IF Strip(printed_output) # << >>
                                  THEN printed_output ELSE result]
    /\ pc' = "done"
    /\ UNCHANGED <<app, route, body, env, papers, idx, output_lines,
                   limitations_list, result_list, calls, net, printed>>
    /\ UNCHANGED <<evars, cvars, ivars, gvars>>

----------------------------------------------------------------------------
\* api.py: /analyze_papers

\* analyze_papers, lines 104-115
analyze_papers ==
    /\ pc = "recv" /\ app = "api" /\ route = "analyze_papers"
    /\ IF IntRaises(body.num)
       THEN /\ resp' = Status500 /\ pc' = "done"
            /\ UNCHANGED <<papers, idx, calls, net>>
       ELSE \E out \in SearchOutcomes :
               LET r == search_core_papers(GetStr(body.topic, ""), out) IN
               /\ net' = IF r.sent THEN net \cup {"core"} ELSE net
               /\ calls' = Append(calls, Call("search_core_papers", 0, ~r.raised))
               /\ IF r.raised
                  THEN /\ resp' = Status500 /\ pc' = "done"
                       /\ UNCHANGED <<papers, idx>>
                  ELSE /\ papers' = r.papers
                       /\ idx' = 1
                       /\ pc' = "ap_loop"
                       /\ resp' = resp
    /\ UNCHANGED <<app, route, body, env, output_lines, limitations_list,
                   result_list, printed>>
    /\ UNCHANGED <<evars, cvars, ivars, gvars>>

\* analyze_papers, lines 116-136: one turn of the loop
analyze_papers_visit ==
    /\ pc = "ap_loop"
    /\ idx <= Len(Visited(3))
    /\ \E ext \in ExtractOutcomes, an \in BackendOutcomes :
          LET paper == Visited(3)[idx]
              link == PyOr(paper.url, paper.downloadUrl)
              downloaded == NeedsDownload(paper)
              dl == extract_text_from_pdf(paper.downloadUrl, ext)
              text == IF downloaded THEN dl.text ELSE paper.fullText
              a == analyze_with_gemini(text, an)
              dlcall == IF downloaded
                        THEN <<Call("extract_text_from_pdf", idx, dl.text # << >>)>>
                        ELSE << >>
              entry(analysis, lim_scope) ==
                  [title |-> paper.title, link |-> link,
                   analysis |-> analysis, lim_scope |-> lim_scope]
          IN  IF downloaded /\ dl.raised
              THEN /\ net' = net \cup {"pdf"}
                   /\ resp' = Status500 /\ pc' = "done"
                   /\ calls' = calls \o dlcall
                   /\ UNCHANGED <<idx, result_list>>
              ELSE IF HasText(text)
              THEN /\ net' = net \cup (IF downloaded THEN {"pdf"} ELSE {})
                                 \cup {"gemini"}
                   /\ IF a.raised
                      THEN /\ resp' = Status500 /\ pc' = "done"
                           /\ calls' = calls \o dlcall
                                  \o <<Call("analyze_with_gemini", idx, FALSE)>>
                           /\ UNCHANGED <<idx, result_list>>
                      ELSE /\ result_list' = Append(result_list,
                                  entry(a.text, extract_limitations_scope(a.text)))
                           /\ calls' = calls \o dlcall
                                  \o <<Call("analyze_with_gemini", idx, an.ok),
                                       Call("extract_limitations_scope", idx, TRUE)>>
                           /\ idx' = idx + 1
                           /\ UNCHANGED <<pc, resp>>
              ELSE /\ net' = net \cup (IF downloaded THEN {"pdf"} ELSE {})
                   /\ result_list' = Append(result_list,
                          entry(<<"Skipped: Full text not available for analysis">>, << >>))
                   /\ calls' = calls \o dlcall
                   /\ idx' = idx + 1
                   /\ UNCHANGED <<pc, resp>>
    /\ UNCHANGED <<app, route, body, env, papers, output_lines,
                   limitations_list, printed>>
    /\ UNCHANGED <<evars, cvars, ivars, gvars>>

\* analyze_papers, line 137
analyze_papers_return ==
    /\ pc = "ap_loop"
    /\ idx > Len(Visited(3))
    /\ resp' = [NoResp EXCEPT !.status = 200, !.papers = result_list]
    /\ pc' = "done"
    /\ UNCHANGED <<app, route, body, env, papers, idx, output_lines,
                   limitations_list, result_list, calls, net, printed>>
    /\ UNCHANGED <<evars, cvars, ivars, gvars>>

----------------------------------------------------------------------------
\* Image generation

\* what the handler sees of the image service: an image (the image body, or
\* base64 text found in a JSON or error body) or an error message
ImageOutcomes == {"image", "error"}

\* api.py and ai_random_ideas_api.py: generate_image_with_huggingface
generate_image_with_huggingface(e, out) ==
    IF ~e.HF_API_KEY
    THEN [img_b64 |-> "", img_error |-> "HF_API_KEY not set", sent |-> FALSE]
    ELSE IF out = "image"
    THEN [img_b64 |-> "b64", img_error |-> "", sent |-> TRUE]
    ELSE [img_b64 |-> "", img_error |-> "error", sent |-> TRUE]

\* app.py: generate_image_with_huggingface does not look at the key
generate_image_with_huggingface_app(out) ==
    IF out = "image"
    THEN [img_b64 |-> "b64", img_error |-> "", sent |-> TRUE]
    ELSE [img_b64 |-> "", img_error |-> "error", sent |-> TRUE]

\* the (image, image_error) pair of a response
ImageEntry(g) ==
    LET image == IF g.img_b64 # "" THEN "data:image/png;base64," ELSE "" IN
    [image |-> image, image_error |-> IF image = "" THEN g.img_error ELSE ""]

----------------------------------------------------------------------------
\* api.py: /generate_ideas and /elaborate

\* /generate_ideas: the split of the Idea Generator's text into ideas.
\* The text is a sequence of the tokens "1." (digits and a period), "-" (a
\* bullet character, "-" or "*"), "sp", "nl" and "w" (a word).

IdeaAlphabet == {"1.", "-", "sp", "nl", "w"}

\* the lookahead (?=\n\d+\.|\n*$) at position p
NumberedLookahead(s, p) ==
    \/ p + 1 <= Len(s) /\ s[p] = "nl" /\ s[p + 1] = "1."
    \/ \A k \in p..Len(s) : s[k] = "nl"

\* \d+\.\s(.+?) can start at i
NumberedStart(s, i) ==
    i + 2 <= Len(s) /\ s[i] = "1." /\ s[i + 1] \in Whitespace

\* where the lazy group (.+?) of a match starting at i ends
NumberedEnd(s, i) ==
    CHOOSE j \in (i + 2)..Len(s) :
        /\ NumberedLookahead(s, j + 1)
        /\ \A k \in (i + 2)..(j - 1) : ~NumberedLookahead(s, k + 1)

\* re.findall(r"\d+\.\s(.+?)(?=\n\d+\.|\n*$)", s, re.DOTALL) from i on
RECURSIVE FindNumbered(_, _)
FindNumbered(s, i) ==
    IF i > Len(s) THEN << >>
    ELSE IF NumberedStart(s, i)
    THEN <<SubSeq(s, i + 2, NumberedEnd(s, i))>> \o FindNumbered(s, NumberedEnd(s, i) + 1)
    ELSE FindNumbered(s, i + 1)

\* [-*]\s(.+) can start at i
BulletStart(s, i) ==
    i + 2 <= Len(s) /\ s[i] = "-" /\ s[i + 1] \in Whitespace /\ s[i + 2] # "nl"

\* where the greedy group (.+) of a match starting at i ends: the line's end
BulletEnd(s, i) ==
    CHOOSE j \in (i + 2)..Len(s) :
        /\ \A k \in (i + 2)..j : s[k] # "nl"
        /\ j = Len(s) \/ s[j + 1] = "nl"

\* re.findall(r"[-*]\s(.+)", s) from i on
RECURSIVE FindBullets(_, _)
FindBullets(s, i) ==
    IF i > Len(s) THEN << >>
    ELSE IF BulletStart(s, i)
    THEN <<SubSeq(s, i + 2, BulletEnd(s, i))>> \o FindBullets(s, BulletEnd(s, i) + 1)
    ELSE FindBullets(s, i + 1)

StripEach(items) == [k \in 1..Len(items) |-> Strip(items[k])]

\* api.py generate_ideas, lines 148-156: the summaries answered
parse_ideas(ideas_text) ==
    LET numbered == FindNumbered(ideas_text, 1) IN
    IF numbered # << >> THEN StripEach(numbered)
    ELSE StripEach(FindBullets(ideas_text, 1))

\* line.strip("-•*1234567890. ")
StripChars == {"-", "1.", "sp"}
RECURSIVE LStripChars(_)
LStripChars(s) == IF s # << >> /\ Head(s) \in StripChars THEN LStripChars(Tail(s)) ELSE s
RECURSIVE RStripChars(_)
RStripChars(s) ==
    IF s # << >> /\ s[Len(s)] \in StripChars
    THEN RStripChars(SubSeq(s, 1, Len(s) - 1)) ELSE s

SelectNonEmpty(items) == SelectSeq(items, LAMBDA x : x # << >>)

\* ai_random_ideas_api.py generate_ideas, lines 204-206: the summaries answered
parse_ideas_ai(text, num_ideas) ==
    LET lines == SelectSeq(Split(text), LAMBDA line : Strip(line) # << >>)
        ideas == [k \in 1..Len(lines) |-> Strip(RStripChars(LStripChars(lines[k])))]
    IN  PySlice(SelectNonEmpty(ideas), num_ideas)

\* generate_ideas, lines 141-157
generate_ideas ==
    /\ pc = "recv" /\ app = "api" /\ route = "generate_ideas"
    /\ IF IntRaises(body.num)
       THEN resp' = Status500 /\ UNCHANGED <<calls, net>>
       ELSE \E out \in BackendOutcomes :
               LET ideas_text == generate_new_ideas(<< >>, out) IN
               /\ resp' = [NoResp EXCEPT !.status = 200,
                                         !.ideas = parse_ideas(ideas_text)]
               /\ calls' = Append(calls, Call("generate_new_ideas", 0, out.ok))
               /\ net' = net \cup {"gemini"}
    /\ pc' = "done"
    /\ UNCHANGED <<app, route, body, env, papers, idx, output_lines,
                   limitations_list, result_list, printed>>
    /\ UNCHANGED <<evars, cvars, ivars, gvars>>

\* elaborate, lines 162-189
elaborate ==
    /\ pc = "recv" /\ app = "api" /\ route = "elaborate"
    /\ IF IntRaises(body.num)
       THEN resp' = Status500 /\ UNCHANGED <<calls, net>>
       ELSE \E out \in BackendOutcomes, io \in ImageOutcomes :
               LET result == elaborate_idea(out)
                   g == generate_image_with_huggingface(env, io)
               IN  /\ resp' = [NoResp EXCEPT !.status = 200, !.result = result,
                                  !.images = <<ImageEntry(g)>>]
                   /\ calls' = Append(calls, Call("elaborate_idea", 0, out.ok))
                   /\ net' = net \cup {"gemini"}
                                 \cup (IF g.sent THEN {"hf"} ELSE {})
    /\ pc' = "done"
    /\ UNCHANGED <<app, route, body, env, papers, idx, output_lines,
                   limitations_list, result_list, printed>>
    /\ UNCHANGED <<evars, cvars, ivars, gvars>>

\* ai_random_ideas_api.py: elaborate, lines 263-305; the call of
\* model.generate_content is this implementation's Idea Elaborator
elaborate_ai ==
    /\ pc = "recv" /\ app = "ai_random_ideas_api" /\ route = "elaborate"
    /\ IF IntRaises(body.num)
       THEN resp' = Status500 /\ UNCHANGED <<calls, net>>
       ELSE IF ~env.GEMINI_API_KEY
       THEN /\ resp' = [NoResp EXCEPT !.status = 200,
                           !.result = <<"AI elaboration unavailable.">>,
                           !.images = <<[image |-> "",
                                         image_error |-> "Gemini API key not set"]>>]
            /\ UNCHANGED <<calls, net>>
       ELSE \E out \in BackendOutcomes, io \in ImageOutcomes :
               LET g == generate_image_with_huggingface(env, io) IN
               /\ calls' = Append(calls, Call("elaborate_idea", 0, out.ok))
               /\ IF out.ok
                  THEN /\ resp' = [NoResp EXCEPT !.status = 200, !.result = out.text,
                                      !.images = <<ImageEntry(g)>>]
                       /\ net' = net \cup {"gemini"}
                                     \cup (IF g.sent THEN {"hf"} ELSE {})
                  ELSE /\ resp' = [NoResp EXCEPT !.status = 200,
                                      !.result = <<"AI elaboration unavailable.">>,
                                      !.images = <<[image |-> "",
                                                    image_error |-> ToString(out.text)]>>]
                       /\ net' = net \cup {"gemini"}
    /\ pc' = "done"
    /\ UNCHANGED <<app, route, body, env, papers, idx, output_lines,
                   limitations_list, result_list, printed>>
    /\ UNCHANGED <<evars, cvars, ivars, gvars>>

----------------------------------------------------------------------------
\* /random_ideas, in api.py and in ai_random_ideas_api.py

fallback_ideas ==
    << <<"Explainable AI for medical imaging diagnosis">>,
       <<"Quantum algorithms for large-scale optimization">>,
       <<"Privacy-preserving federated learning in healthcare">>,
       <<"Bias detection in language models for legal documents">>,
       <<"Energy-efficient deep learning for edge devices">> >>

\* random.sample(population, k) raises ValueError for these k
SampleRaises(population, k) == k < 0 \/ k > Len(population)

\* A slip: random.choices, which draws with replacement.
SampleWithReplacement(population, k) ==
    {[i \in 1..k |-> population[f[i]]] : f \in [1..k -> 1..Len(population)]}

\* random.sample(population, k): every list it may return
Sample(population, k) ==
    {[i \in 1..k |-> population[f[i]]] :
        f \in {g \in [1..k -> 1..Len(population)] :
                  \A i, j \in 1..k : i # j => g[i] # g[j]}}

\* the trending-paper search: some papers, none, or a failure
TrendingOutcomes == {"some", "none", "error"}

fetch_trending_papers_from_core(e, out) ==
    IF ~e.CORE_API_KEY THEN [papers |-> << >>, sent |-> FALSE]
    ELSE IF out = "some"
    THEN [papers |-> <<[title |-> "T", abstract |-> "A"]>>, sent |-> TRUE]
    ELSE [papers |-> << >>, sent |-> TRUE]

\* The backend's response to the gaps prompt is a sequence of the tokens
\* "-" (a hyphen), "sp", "nl", "Paper" (a word that starts with "paper" in
\* any case), and the words "w" and "v".
GapAlphabet == {"-", "sp", "nl", "Paper", "w", "v"}

\* generate_gaps_with_gemini, the body of the loop over the lines: the idea
\* a line gives, << >> when it gives none or an empty one
LineIdea(raw) ==
    LET line == Strip(raw) IN
    IF Len(line) >= 2 /\ line[1] = "-" /\ line[2] = "sp"
    THEN Strip(SubSeq(line, 3, Len(line)))
    ELSE IF line # << >> /\ line[1] # "Paper"
    THEN Strip(RStripChars(LStripChars(line)))
    ELSE << >>

\* A slip: the ideas are returned with their repetitions.
KeepDuplicates(ideas) == ideas

\* the loop over `ideas` with the set `seen`: the first occurrence of each
RECURSIVE Unique(_)
Unique(ideas) ==
    IF ideas = << >> THEN << >>
    ELSE LET u == Unique(SubSeq(ideas, 1, Len(ideas) - 1))
             last == ideas[Len(ideas)]
         IN  IF \E k \in 1..Len(u) : u[k] = last THEN u ELSE Append(u, last)

\* unique_ideas of generate_gaps_with_gemini
parse_gaps(text) ==
    LET lines == Split(text) IN
    Unique(SelectNonEmpty([k \in 1..Len(lines) |-> LineIdea(lines[k])]))

\* the responses a request of Spec may get: empty, one idea, a bullet and a
\* plain line, a line that is no idea
GapTexts == {<< >>, <<"w">>, <<"-", "sp", "w", "nl", "v">>, <<"Paper", "sp", "w">>}
GapOutcomes == [ok : BOOLEAN, text : GapTexts]

generate_gaps_with_gemini(e, ps, count, out) ==
    IF ~e.GEMINI_API_KEY \/ ps = << >> THEN [ideas |-> << >>, sent |-> FALSE]
    ELSE IF out.ok THEN [ideas |-> PySlice(parse_gaps(out.text), count), sent |-> TRUE]
    ELSE [ideas |-> << >>, sent |-> TRUE]

\* random_ideas, `if not ideas:` and the fallback: the lists it may answer
IdeasOrFallback(count, ideas0) ==
    IF ideas0 = << >> THEN Sample(fallback_ideas, Min(count, Len(fallback_ideas)))
    ELSE {ideas0}

\* random_ideas from the ideas on: the fallback, the images, the response
random_ideas_answer(count, ideas0, net0) ==
    IF ideas0 = << >> /\ SampleRaises(fallback_ideas, Min(count, Len(fallback_ideas)))
    THEN resp' = Status500 /\ net' = net0
    ELSE \E ideas \in IdeasOrFallback(count, ideas0) :
            IF app = "api"
            THEN \E io \in [1..Len(ideas) -> ImageOutcomes] :
                    LET g(i) == generate_image_with_huggingface(env, io[i]) IN
                    /\ resp' = [NoResp EXCEPT !.status = 200, !.ideas = ideas,
                                   !.images = [i \in 1..Len(ideas) |-> ImageEntry(g(i))]]
                    /\ net' = net0 \cup (IF \E i \in 1..Len(ideas) : g(i).sent
                                         THEN {"hf"} ELSE {})
            ELSE /\ resp' = [NoResp EXCEPT !.status = 200, !.ideas = ideas]
                 /\ net' = net0

\* random_ideas: api.py lines 193-293, ai_random_ideas_api.py lines 145-161
random_ideas ==
    /\ pc = "recv" /\ route = "random_ideas"
    /\ app \in {"api", "ai_random_ideas_api"}
    /\ IF IntRaises(body.num)
       THEN resp' = Status500 /\ net' = net
       ELSE \E tout \in TrendingOutcomes :
               LET count == GetInt(body.num, 5)
                   t == fetch_trending_papers_from_core(env, tout)
                   net1 == IF t.sent THEN net \cup {"core"} ELSE net
               IN  IF env.GEMINI_API_KEY /\ t.papers # << >>
                   THEN \E gout \in GapOutcomes :
                           LET gaps == generate_gaps_with_gemini(env, t.papers, count, gout)
                           IN  random_ideas_answer(count, gaps.ideas,
                                   IF gaps.sent THEN net1 \cup {"gemini"} ELSE net1)
                   ELSE random_ideas_answer(count, << >>, net1)
    /\ pc' = "done"
    /\ UNCHANGED <<app, route, body, env, papers, idx, output_lines,
                   limitations_list, result_list, calls, printed>>
    /\ UNCHANGED <<evars, cvars, ivars, gvars>>

----------------------------------------------------------------------------
\* app.py: the image page

\* index, lines 63-78
index ==
    /\ pc = "recv" /\ app = "app" /\ route = "index"
    /\ LET topic == GetStr(body.topic, "") IN
       IF topic = ""
       THEN resp' = [NoResp EXCEPT !.status = 200, !.result = <<"Please enter a topic.">>]
            /\ net' = net
       ELSE IF ~env.HF_API_KEY
       THEN resp' = [NoResp EXCEPT !.status = 200,
                        !.result = <<"Hugging Face API key is not set.">>]
            /\ net' = net
       ELSE \E io \in ImageOutcomes :
               LET g == generate_image_with_huggingface_app(io) IN
               /\ resp' = [NoResp EXCEPT !.status = 200, !.images = <<ImageEntry(g)>>]
               /\ net' = net \cup {"hf"}
    /\ pc' = "done"
    /\ UNCHANGED <<app, route, body, env, papers, idx, output_lines,
                   limitations_list, result_list, calls, printed>>
    /\ UNCHANGED <<evars, cvars, ivars, gvars>>

----------------------------------------------------------------------------
\* One request

ApiRoutes == {"analyze", "analyze_papers", "generate_ideas", "elaborate", "random_ideas"}
Requests == {<<"api", r>> : r \in ApiRoutes}
            \cup {<<"ai_random_ideas_api", "random_ideas">>,
                  <<"ai_random_ideas_api", "elaborate">>, <<"app", "index">>}

\* the values of the integer field a route reads: num_papers, num_ideas and
\* word_limit, or count
NumRange(r) ==
    IF r \in {"analyze", "analyze_papers"} THEN (-1)..MaxNumPapers
    ELSE IF r = "random_ideas" THEN (-1)..MaxCount
    ELSE {1}
NumFields(r) ==
    IF r = "index" THEN {JAbsent}
    ELSE {JAbsent, JStr("")} \cup {JNum(n) : n \in NumRange(r)}
TopicFields(r) ==
    IF r = "random_ideas" THEN {JAbsent} ELSE {JAbsent, JStr(""), JStr("q")}

MainIdle ==
    /\ app = "" /\ route = "" /\ env = [CORE_API_KEY |-> FALSE,
                                        GEMINI_API_KEY |-> FALSE, HF_API_KEY |-> FALSE]
    /\ body = [topic |-> JAbsent, num |-> JAbsent]
    /\ pc = "idle" /\ papers = << >> /\ idx = 0 /\ output_lines = << >>
    /\ limitations_list = << >> /\ result_list = << >> /\ calls = << >>
    /\ net = {} /\ printed = << >> /\ resp = NoResp

ExtractIdle ==
    epc = "idle" /\ analysis_in = << >> /\ excerpt = << >> /\ excerpt2 = << >>

ConcIdle ==
    /\ sys_stdout = 0
    /\ tpc = << >> /\ saved = << >> /\ buf = << >> /\ closed = << >>
    /\ prints = << >> /\ transcript = << >> /\ tresult = << >>

IdeasIdle ==
    ipc = "idle" /\ ideas_text_in = << >> /\ num_ideas_in = 0
    /\ api_ideas = << >> /\ ai_ideas = << >>

GapsIdle ==
    /\ gpc = "idle" /\ gap_out = [ok |-> FALSE, text |-> << >>]
    /\ gap_env = [GEMINI_API_KEY |-> FALSE] /\ gap_papers = << >>
    /\ gap_count = 0 /\ gap_ideas = << >> /\ gideas = << >>

Init ==
    /\ \E rq \in Requests :
          /\ app = rq[1] /\ route = rq[2]
          /\ body \in [topic : TopicFields(rq[2]), num : NumFields(rq[2])]
    /\ env \in Envs
    /\ pc = "recv" /\ papers = << >> /\ idx = 0 /\ output_lines = << >>
    /\ limitations_list = << >> /\ result_list = << >> /\ calls = << >>
    /\ net = {} /\ printed = << >> /\ resp = NoResp
    /\ ExtractIdle /\ ConcIdle /\ IdeasIdle /\ GapsIdle

Next ==
    \/ analyze
    \/ process_papers_search
    \/ process_papers_visit
    \/ process_papers_ideas
    \/ analyze_return
    \/ analyze_papers
    \/ analyze_papers_visit
    \/ analyze_papers_return
    \/ generate_ideas
    \/ elaborate
    \/ elaborate_ai
    \/ random_ideas
    \/ index

Spec == Init /\ [][Next]_vars

----------------------------------------------------------------------------
\* Properties

Contains(text, tok) == \E i \in 1..Len(text) : text[i] = tok
EndsWith(text, suffix) ==
    /\ Len(text) >= Len(suffix)
    /\ SubSeq(text, Len(text) - Len(suffix) + 1, Len(text)) = suffix
CallsOf(fns) == {i \in 1..Len(calls) : calls[i].fn \in fns}
DistinctSeq(s) == \A i, j \in 1..Len(s) : i # j => s[i] # s[j]

\* C1: every route of api.py answers every body and every outcome of the
\* external calls with status 200; no exception leaves a handler.
AlwaysStatus200 ==
    (pc = "done" /\ app = "api" /\ route \in ApiRoutes) => resp.status = 200

\* the search of this process_papers run returned normally, with no paper
ZeroResults ==
    /\ route = "analyze"
    /\ calls # << >>
    /\ calls[1].fn = "search_core_papers" /\ calls[1].ok
    /\ papers = << >>

\* C2: when the search of a process_papers run yields no paper, the
\* transcript holds the no-papers message and neither the Text Analyzer,
\* the Text Extractor nor the Idea Generator is invoked in the run.
NoPapersNoAnalysis ==
    ZeroResults =>
        /\ CallsOf({"analyze_with_gemini", "extract_text_from_pdf",
                    "generate_new_ideas"}) = {}
        /\ pc \in {"ret", "done"}
        /\ Contains(Join(output_lines), NoPapersLine[2])

NoPapersNoAnalysisWitness ==
    ZeroResults /\ pc = "done" /\ resp.status = 200 /\ "core" \in net

\* paper j of the run has its section in the transcript: header, title,
\* link, then an analysis block or the skip notice
HasSection(j) ==
    \E k \in 1..(Len(output_lines) - 3) :
        /\ output_lines[k] = HeaderLine(j, GetInt(body.num, 10))
        /\ output_lines[k + 1] = TitleLine(Visited(10)[j])
        /\ output_lines[k + 2] = LinkLine(Visited(10)[j])
        /\ \/ output_lines[k + 3] = SkippedLine
           \/ /\ Len(output_lines[k + 3]) >= 3
              /\ SubSeq(output_lines[k + 3], 1, 3) = AnalysisLine(<< >>)

AnalyzerFailedOn(i) ==
    \E c \in 1..Len(calls) :
        calls[c].fn = "analyze_with_gemini" /\ calls[c].idx = i /\ ~calls[c].ok

\* C3: a Text Analyzer failure on paper i does not end the batch: every
\* paper after i, up to the limit, is processed and has its section in the
\* transcript process_papers returns.
AnalyzerErrorKeepsBatch ==
    (route = "analyze" /\ pc \in {"ret", "done"}) =>
        \A i \in 1..Len(Visited(10)) :
            AnalyzerFailedOn(i) =>
                \A j \in i..Len(Visited(10)) : HasSection(j)

AnalyzerErrorKeepsBatchWitness ==
    /\ route = "analyze" /\ pc = "ret"
    /\ Len(Visited(10)) >= 2
    /\ AnalyzerFailedOn(1)
    /\ \E c \in 1..Len(calls) :
          calls[c].fn = "analyze_with_gemini" /\ calls[c].idx = 2 /\ calls[c].ok

\* the paper process_papers visits next has no full text and no download URL
NextPaperBare ==
    /\ route = "analyze" /\ pc = "loop"
    /\ idx <= Len(Visited(10))
    /\ Visited(10)[idx].fullText = << >>
    /\ Visited(10)[idx].downloadUrl = ""

\* C4: for a paper with no full text and no download URL process_papers
\* records the skip notice, calls neither the Text Analyzer nor the
\* Limitation Extractor (nor any other component), and leaves the excerpt
\* list as it was.
BarePaperSkipped ==
    [][NextPaperBare =>
          /\ limitations_list' = limitations_list
          /\ calls' = calls
          /\ Len(output_lines') = Len(output_lines) + 4
          /\ output_lines'[Len(output_lines')] = SkippedLine
          /\ idx' = idx + 1]_vars

\* a bare paper was skipped after a paper that gave an excerpt
BarePaperSkippedWitness ==
    /\ route = "analyze" /\ pc = "loop" /\ idx = 3
    /\ Visited(10)[2].fullText = << >> /\ Visited(10)[2].downloadUrl = ""
    /\ Len(limitations_list) = 1
    /\ output_lines[Len(output_lines)] = SkippedLine

\* C5: in a process_papers run that found a paper, the Idea Generator is
\* invoked once, after the last paper, exactly when the excerpt list is not
\* empty at the end of the loop; with an empty list it is never invoked
\* and the transcript ends with the no-ideas message.
IdeasOnceIffExcerpts ==
    (route = "analyze" /\ papers # << >>) =>
        LET gen == CallsOf({"generate_new_ideas"}) IN
        /\ pc = "loop" => gen = {}
        /\ pc \in {"ret", "done"} =>
              IF limitations_list # << >>
              THEN /\ gen = {Len(calls)}
                   /\ idx = Len(Visited(10)) + 1
              ELSE /\ gen = {}
                   /\ EndsWith(Join(output_lines), NoIdeasLine)

IdeasOnceIffExcerptsWitness ==
    /\ route = "analyze" /\ pc = "ret" /\ Len(Visited(10)) = 2
    /\ Len(limitations_list) = 1
    /\ CallsOf({"generate_new_ideas"}) = {Len(calls)}
    /\ CallsOf({"analyze_with_gemini"}) # {}

\* C7: the result field of an /analyze response is the transcript that
\* process_papers assembled, whatever the components printed.
ResultIsTranscript ==
    (route = "analyze" /\ pc = "done" /\ resp.status = 200) =>
        resp.result = Join(output_lines)

\* C8: a service whose credential is unset is sent no request.
CredentialGatesCall ==
    /\ ~env.CORE_API_KEY => "core" \notin net
    /\ ~env.GEMINI_API_KEY => "gemini" \notin net
    /\ ~env.HF_API_KEY => "hf" \notin net

\* /random_ideas answered a request for count ideas without credentials
RandomIdeasNoCredentials(count) ==
    /\ route = "random_ideas" /\ pc = "done"
    /\ ~env.CORE_API_KEY \/ ~env.GEMINI_API_KEY
    /\ body.num = JNum(count)

FallbackAnswer(count) ==
    /\ resp.status = 200
    /\ Len(resp.ideas) = count
    /\ DistinctSeq(resp.ideas)
    /\ \A i \in 1..Len(resp.ideas) :
          \E j \in 1..Len(fallback_ideas) : resp.ideas[i] = fallback_ideas[j]

\* C9 as stated: for every count <= 5, /random_ideas without credentials
\* answers exactly count distinct fallback ideas.
FallbackForCountUpTo5 ==
    \A count \in (-1)..5 : RandomIdeasNoCredentials(count) => FallbackAnswer(count)

\* C9 amended: for every count from 0 to 5, /random_ideas without
\* credentials answers exactly count distinct fallback ideas.
FallbackForCount0To5 ==
    \A count \in 0..5 : RandomIdeasNoCredentials(count) => FallbackAnswer(count)

FallbackForCount0To5Witness ==
    /\ RandomIdeasNoCredentials(3) /\ FallbackAnswer(3)
    /\ resp.ideas[1] = fallback_ideas[5]

----------------------------------------------------------------------------
\* The extractor on its own: a text, its excerpt, the excerpt of the excerpt.
ExtractInit ==
    /\ epc = "in"
    /\ analysis_in \in TokenSeqs(Alphabet, MaxTextLen)
    /\ excerpt = << >>
    /\ excerpt2 = << >>
    /\ MainIdle /\ ConcIdle /\ IdeasIdle /\ GapsIdle

ExtractOnce ==
    /\ epc = "in"
    /\ excerpt' = extract_limitations_scope(analysis_in)
    /\ epc' = "once"
    /\ UNCHANGED <<analysis_in, excerpt2>>
    /\ UNCHANGED <<mvars, cvars, ivars, gvars>>

ExtractTwice ==
    /\ epc = "once"
    /\ excerpt2' = extract_limitations_scope(excerpt)
    /\ epc' = "twice"
    /\ UNCHANGED <<analysis_in, excerpt>>
    /\ UNCHANGED <<mvars, cvars, ivars, gvars>>

ExtractNext == ExtractOnce \/ ExtractTwice

SpecExtract == ExtractInit /\ [][ExtractNext]_vars

\* C10: the extractor is idempotent: the excerpt of an excerpt is that
\* excerpt; a non-empty excerpt still has a trigger keyword, and an empty
\* excerpt maps to the empty text.
ExtractIdempotent ==
    epc = "twice" =>
        /\ excerpt2 = excerpt
        /\ excerpt # << >> => HasTrigger(excerpt)
        /\ excerpt = << >> => excerpt2 = << >>

\* a text with blanks before the trigger and lines after it, extracted twice
ExtractIdempotentWitness ==
    /\ epc = "twice"
    /\ excerpt # << >>
    /\ excerpt # analysis_in
    /\ Len(SplitLines(excerpt)) >= 2

\* the lines of the analysed text
AnalysisLines == SplitLines(analysis_in)

\* the first line with a trigger keyword; 0 when there is none
FirstTrigger ==
    IF \E t \in 1..Len(AnalysisLines) : HasTrigger(AnalysisLines[t])
    THEN CHOOSE t \in 1..Len(AnalysisLines) :
            /\ HasTrigger(AnalysisLines[t])
            /\ \A k \in 1..(t - 1) : ~HasTrigger(AnalysisLines[k])
    ELSE 0

\* the first line after line t with a stop word; the last line when there
\* is none
FirstStopAfter(t) ==
    IF \E e \in (t + 1)..Len(AnalysisLines) : HasStop(AnalysisLines[e])
    THEN CHOOSE e \in (t + 1)..Len(AnalysisLines) :
            /\ HasStop(AnalysisLines[e])
            /\ \A k \in (t + 1)..(e - 1) : ~HasStop(AnalysisLines[k])
    ELSE Len(AnalysisLines)

\* C12: the excerpt starts at the first line with a trigger keyword and ends
\* with the first line after the trigger line that has a stop word (with the
\* last line when there is none): a stop word on the trigger line itself
\* does not end the capture.
StopsAtSubsequentLine ==
    (epc # "in" /\ FirstTrigger > 0) =>
        excerpt = Strip(Join(SubSeq(AnalysisLines, FirstTrigger,
                                    FirstStopAfter(FirstTrigger))))

\* the Idea Elaborator of this request was called and its backend failed
ElaborationFailed ==
    /\ route = "elaborate" /\ pc = "done"
    /\ \E c \in 1..Len(calls) : calls[c].fn = "elaborate_idea" /\ ~calls[c].ok

\* what each implementation answers when the backend fails with an empty
\* error message
ElaborationSentinel ==
    IF app = "api" THEN elaborate_idea([ok |-> FALSE, text |-> << >>])
    ELSE <<"AI elaboration unavailable.">>

\* C14: when the backend fails during elaboration the Idea Elaborator does
\* not raise and the result is one fixed sentinel, the same for every
\* failure whatever the error.
ElaborationSentinelFixed ==
    ElaborationFailed =>
        resp.status = 200 /\ resp.result = ElaborationSentinel

\* search_core_papers logged a failure of its request (the log is in
\* `printed` for /analyze)
SearchFailureLogged ==
    \/ Contains(printed, "CORE API error:")
    \/ Contains(printed, "Unexpected error contacting CORE API:")

\* C15: search_core_papers with an empty topic raises before any request is
\* sent; with a non-empty topic it sends the request and never raises, and
\* when the request fails (a non-2xx response or any other failure) it
\* returns no paper.
SearchContract ==
    \A c \in CallsOf({"search_core_papers"}) :
        /\ GetStr(body.topic, "") = "" => ~calls[c].ok /\ net = {}
        /\ GetStr(body.topic, "") # "" => calls[c].ok /\ "core" \in net
        /\ SearchFailureLogged => calls[c].ok /\ papers = << >>

\* /analyze on a topic whose search was answered by a non-2xx response
SearchContractWitness ==
    /\ route = "analyze" /\ pc = "done" /\ body.topic = JStr("q")
    /\ CallsOf({"search_core_papers"}) = {1}
    /\ Contains(printed, "CORE API error:")
    /\ papers = << >> /\ resp.status = 200

\* the extractor alone on every text, and the requests: the initial states
\* and the steps of both
SpecAnalysis == (Init \/ ExtractInit) /\ [][Next \/ ExtractNext]_vars

\* some line of the text has "limitation" or "scope", in any case
AnyTriggerLine(text) ==
    \E l \in 1..Len(SplitLines(text)) :
        \E k \in 1..Len(SplitLines(text)[l]) :
            SplitLines(text)[l][k] \in {"limitation", "Limitation", "scope", "Scope"}

\* a process_papers run that found papers; its sections 1..(idx - 1) are
\* written, each of four lines after the first line of the transcript
InRun == route = "analyze" /\ pc \in {"loop", "ret", "done"} /\ papers # << >>
SectionBody(j) == output_lines[4 * j + 1]
Analysed(j) ==
    /\ Len(SectionBody(j)) >= 3
    /\ SubSeq(SectionBody(j), 1, 3) = AnalysisLine(<< >>)
AnalysisOf(j) == SubSeq(SectionBody(j), 4, Len(SectionBody(j)))

\* C13: the extractor returns the empty text if and only if no line of the
\* analysis has a trigger keyword; so process_papers has appended one
\* excerpt, never an empty one, for each analysed paper whose analysis has a
\* trigger line and none for the others.
ExcerptIffTrigger ==
    /\ epc \in {"once", "twice"} =>
           (excerpt = << >> <=> ~AnyTriggerLine(analysis_in))
    /\ InRun =>
           /\ Len(limitations_list) =
                  Cardinality({j \in 1..(idx - 1) :
                                  Analysed(j) /\ AnyTriggerLine(AnalysisOf(j))})
           /\ \A k \in 1..Len(limitations_list) : limitations_list[k] # << >>

\* a text whose only keyword is a capitalised one on its second line
ExcerptIffTriggerWitness ==
    /\ epc = "once"
    /\ Len(SplitLines(analysis_in)) >= 2
    /\ ~AnyTriggerLine(SplitLines(analysis_in)[1])
    /\ Contains(analysis_in, "Scope") /\ ~Contains(analysis_in, "limitation")
    /\ excerpt # << >>

\* the lines after the last section are the idea block
IdeaBlockAt(k) ==
    /\ Len(output_lines) = k + 3
    /\ output_lines[k] = BannerLine
    /\ output_lines[k + 1] = GeneratingLine
    /\ output_lines[k + 2] = SuggestedLine

\* C16: the transcript process_papers returns is ordered: after its first
\* line come the sections of the papers in source order, each with its
\* header, then the title, then the link, then exactly one of an analysis
\* block or the skip notice; after the last section comes, once, the idea
\* block or the no-ideas message, and nothing else.
TranscriptOrdered ==
    (InRun /\ pc \in {"ret", "done"}) =>
        LET n == Len(Visited(10)) IN
        /\ output_lines[1][2] = "Found"
        /\ \A j \in 1..n :
              /\ output_lines[4 * j - 2] = HeaderLine(j, GetInt(body.num, 10))
              /\ output_lines[4 * j - 1] = <<"Title:", Visited(10)[j].title>>
              /\ output_lines[4 * j][1] \in {"Link:", "Link: Not available"}
              /\ output_lines[4 * j] = LinkLine(Visited(10)[j])
              /\ Analysed(j) # (SectionBody(j) = SkippedLine)
              /\ Visited(10)[j].fullText # << >> => Analysed(j)
        /\ \/ Len(output_lines) = 4 * n + 2 /\ output_lines[4 * n + 2] = NoIdeasLine
           \/ IdeaBlockAt(4 * n + 2)

\* two papers, the first analysed and the second skipped, then the idea block
TranscriptOrderedWitness ==
    /\ InRun /\ pc = "ret"
    /\ Len(Visited(10)) = 2
    /\ Analysed(1) /\ SectionBody(2) = SkippedLine
    /\ IdeaBlockAt(10)

\* /analyze alone, its handler running on once started and every external
\* call returning or failing
RunInit == Init /\ app = "api" /\ route = "analyze"
RunNext ==
    \/ analyze
    \/ process_papers_search
    \/ process_papers_visit
    \/ process_papers_ideas
    \/ analyze_return
SpecRun == RunInit /\ [][RunNext]_vars /\ WF_vars(RunNext)

\* process_papers has left its loop through the step after it
ReachedIdeaStep ==
    \/ output_lines[Len(output_lines)] = NoIdeasLine
    \/ IdeaBlockAt(Len(output_lines) - 3)

\* C17: every process_papers run ends with a transcript; when it found
\* papers, the loop has gone past each of the papers[:num_papers], analysed
\* or skipped, and the idea step (ideas or the no-ideas message) was reached:
\* no failure of the Text Extractor or the Text Analyzer ends the loop early.
RunTerminates ==
    (pc = "search") ~>
        /\ pc = "done" /\ resp.status = 200
        /\ output_lines # << >>
        /\ papers # << >> =>
              /\ idx = Len(Visited(10)) + 1
              /\ \A j \in 1..Len(Visited(10)) : HasSection(j)
              /\ ReachedIdeaStep

\* a finished run whose two papers both met a failure: a failed download and
\* a failed analysis
RunTerminatesWitness ==
    /\ InRun /\ pc = "done"
    /\ idx = 3
    /\ \E c \in 1..Len(calls) : calls[c].fn = "extract_text_from_pdf" /\ ~calls[c].ok
    /\ \E c \in 1..Len(calls) : calls[c].fn = "analyze_with_gemini" /\ ~calls[c].ok
    /\ ReachedIdeaStep

\* the calls of fn for paper j, as positions in `calls`
CallsFor(fn, j) == {c \in 1..Len(calls) : calls[c].fn = fn /\ calls[c].idx = j}

\* paper j has a text: inline, or extracted from its download
PaperHasText(j) ==
    \/ Visited(10)[j].fullText # << >>
    \/ \E c \in CallsFor("extract_text_from_pdf", j) : calls[c].ok

\* the excerpts of the sections 1..n, in the order of the sections
RECURSIVE ExcerptsUpTo(_)
ExcerptsUpTo(n) ==
    IF n = 0 THEN << >>
    ELSE LET e == IF Analysed(n) THEN extract_limitations_scope(AnalysisOf(n))
                  ELSE << >>
         IN  IF e = << >> THEN ExcerptsUpTo(n - 1) ELSE Append(ExcerptsUpTo(n - 1), e)

\* C18: a process_papers run with limit N visits at most N papers (none
\* when N is not positive), however many the search returns; the Text
\* Analyzer is called exactly once for each visited paper with a text and
\* never for one without; the Limitation Extractor runs on a paper only
\* after that paper's analyzer call; the excerpt list is in source order.
VisitsAtMostN ==
    InRun =>
        /\ idx - 1 <= Max(GetInt(body.num, 10), 0)
        /\ \A j \in 1..(idx - 1) :
              /\ Cardinality(CallsFor("analyze_with_gemini", j))
                     = IF PaperHasText(j) THEN 1 ELSE 0
              /\ \A e \in CallsFor("extract_limitations_scope", j) :
                     \E a \in CallsFor("analyze_with_gemini", j) : a < e
        /\ limitations_list = ExcerptsUpTo(idx - 1)

\* the papers a batch visits, in process_papers and in /analyze_papers
BatchPapers == IF route = "analyze" THEN Visited(10) ELSE Visited(3)
InBatch ==
    /\ route \in {"analyze", "analyze_papers"}
    /\ pc \in {"loop", "ret", "ap_loop", "done"}
    /\ papers # << >>
\* paper j of the batch was recorded as skipped
SkippedPaper(j) ==
    IF route = "analyze" THEN SectionBody(j) = SkippedLine
    ELSE /\ result_list[j].analysis = <<"Skipped: Full text not available for analysis">>
         /\ result_list[j].lim_scope = << >>

\* C19: in process_papers and in /analyze_papers the Text Extractor is
\* called for a paper only when the paper has no inline full text and has a
\* download URL; a paper with inline text is analysed with no download; a
\* paper whose download failed (the extractor returned the empty text) is
\* skipped, not analysed.
DownloadOnlyWhenNeeded ==
    InBatch =>
        /\ \A j \in 1..(idx - 1) :
              LET p == BatchPapers[j]
                  ex == CallsFor("extract_text_from_pdf", j)
              IN  /\ ex # {} => p.fullText = << >> /\ p.downloadUrl # ""
                  /\ p.fullText # << >> =>
                         /\ ex = {}
                         /\ Cardinality(CallsFor("analyze_with_gemini", j)) = 1
                         /\ ~SkippedPaper(j)
                  /\ (ex # {} /\ \A c \in ex : ~calls[c].ok) =>
                         /\ CallsFor("analyze_with_gemini", j) = {}
                         /\ SkippedPaper(j)
        /\ "pdf" \in net =>
              \E k \in 1..Len(BatchPapers) :
                  BatchPapers[k].fullText = << >> /\ BatchPapers[k].downloadUrl # ""

\* /analyze_papers: a paper with inline text and a download URL analysed
\* without a download, and a paper skipped after its download failed
DownloadOnlyWhenNeededWitness ==
    /\ InBatch /\ route = "analyze_papers" /\ pc = "done" /\ idx = 3
    /\ BatchPapers[1].fullText # << >> /\ BatchPapers[1].downloadUrl # ""
    /\ CallsFor("extract_text_from_pdf", 1) = {}
    /\ \E c \in CallsFor("extract_text_from_pdf", 2) : ~calls[c].ok
    /\ SkippedPaper(2)

\* the papers visited so far whose analyzer call returned an analysis
AnalysedOk == {j \in 1..(idx - 1) :
                  \E c \in CallsFor("analyze_with_gemini", j) : calls[c].ok}

\* C20: in a run with a positive limit process_papers never takes the error text of a failed Text Analyzer
\* call for an analysis: whatever the error message, the failed paper adds
\* no excerpt to the excerpt list, so the excerpts are at most one per paper
\* whose analysis succeeded, and the Idea Generator is not called when no
\* analysis succeeded.
ErrorTextNoExcerpt ==
    (InRun /\ GetInt(body.num, 10) > 0) =>
        /\ Len(limitations_list) <= Cardinality(AnalysedOk)
        /\ AnalysedOk = {} => CallsOf({"generate_new_ideas"}) = {}

----------------------------------------------------------------------------
\* /random_ideas from the backend's response on, on every response text:
\* generate_gaps_with_gemini, then the fallback.  The code is the same in
\* ai_random_ideas_api.py (lines 47-83, 149-161) and in api.py (lines
\* 232-280).

GapsInit ==
    /\ gpc = "text"
    /\ gap_count \in (-1)..MaxGapCount
    /\ gap_env \in [GEMINI_API_KEY : BOOLEAN]
    /\ gap_papers \in {<< >>, <<[title |-> "T", abstract |-> "A"]>>}
    /\ gap_out \in [ok : BOOLEAN, text : TokenSeqs(GapAlphabet, MaxGapLen)]
    \* the text matters only when the backend is called and answers
    /\ (~gap_env.GEMINI_API_KEY \/ gap_papers = << >> \/ ~gap_out.ok)
          => gap_out.text = << >>
    /\ gap_ideas = << >> /\ gideas = << >>
    /\ MainIdle /\ ExtractIdle /\ ConcIdle /\ IdeasIdle

\* random_ideas: `if GEMINI_API_KEY and papers:` and the call
GapsGenerate ==
    /\ gpc = "text"
    /\ gap_ideas' =
          IF gap_env.GEMINI_API_KEY /\ gap_papers # << >>
          THEN generate_gaps_with_gemini(gap_env, gap_papers, gap_count, gap_out).ideas
          ELSE << >>
    /\ gpc' = "gaps"
    /\ UNCHANGED <<gap_out, gap_env, gap_papers, gap_count, gideas>>
    /\ UNCHANGED <<evars, mvars, cvars, ivars>>

\* random_ideas: `if not ideas:`, the fallback, the answer
GapsAnswer ==
    /\ gpc = "gaps"
    /\ IF gap_ideas = << >>
          /\ SampleRaises(fallback_ideas, Min(gap_count, Len(fallback_ideas)))
       THEN gpc' = "raised" /\ gideas' = gideas
       ELSE gpc' = "answered" /\ gideas' \in IdeasOrFallback(gap_count, gap_ideas)
    /\ UNCHANGED <<gap_out, gap_env, gap_papers, gap_count, gap_ideas>>
    /\ UNCHANGED <<evars, mvars, cvars, ivars>>

GapsNext == GapsGenerate \/ GapsAnswer

SpecGaps == GapsInit /\ [][GapsNext]_vars

\* the lines of the response, and the first line that gives an idea
GapLines == Split(gap_out.text)
FirstLineOf(idea) ==
    CHOOSE l \in 1..Len(GapLines) :
        /\ LineIdea(GapLines[l]) = idea
        /\ \A m \in 1..(l - 1) : LineIdea(GapLines[m]) # idea

\* the backend was called and answered
GapsBackendUsed == gap_env.GEMINI_API_KEY /\ gap_papers # << >> /\ gap_out.ok

\* a list of min(count, 5) distinct fallback ideas
IsFallback(ideas, count) ==
    /\ Len(ideas) = Min(count, Len(fallback_ideas))
    /\ DistinctSeq(ideas)
    /\ \A i \in 1..Len(ideas) :
          \E j \in 1..Len(fallback_ideas) : ideas[i] = fallback_ideas[j]

\* C21: for every response text and every count >= 0,
\* generate_gaps_with_gemini returns at most count ideas, none empty, no two
\* equal, in the order of their first lines in the response and leaving out
\* none that comes before one it returns; /random_ideas answers that list
\* when it is not empty and the fallback ideas when it is empty (no
\* credential, no papers, a backend failure, no usable line), without
\* raising, so its ideas are not empty when count >= 1.
GapsContract ==
    gap_count >= 0 =>
        /\ gpc # "raised"
        /\ gpc \in {"gaps", "answered"} =>
              /\ Len(gap_ideas) <= gap_count
              /\ \A k \in 1..Len(gap_ideas) : gap_ideas[k] # << >>
              /\ DistinctSeq(gap_ideas)
              /\ ~GapsBackendUsed => gap_ideas = << >>
              /\ \A k \in 1..Len(gap_ideas) :
                    \E l \in 1..Len(GapLines) : LineIdea(GapLines[l]) = gap_ideas[k]
              /\ \A i, j \in 1..Len(gap_ideas) :
                    i < j => FirstLineOf(gap_ideas[i]) < FirstLineOf(gap_ideas[j])
              /\ GapsBackendUsed =>
                    \A l \in 1..Len(GapLines) :
                        LET x == LineIdea(GapLines[l]) IN
                        (x # << >> /\ \A k \in 1..Len(gap_ideas) : gap_ideas[k] # x) =>
                            /\ Len(gap_ideas) = gap_count
                            /\ \A k \in 1..Len(gap_ideas) :
                                  FirstLineOf(gap_ideas[k]) < l
        /\ gpc = "answered" =>
              /\ gap_ideas # << >> => gideas = gap_ideas
              /\ gap_ideas = << >> => IsFallback(gideas, gap_count)
              /\ gap_count >= 1 => gideas # << >>

\* a response of three lines, the third repeating the idea of the first,
\* read for two ideas and answered
GapsContractWitness ==
    /\ gpc = "answered" /\ GapsBackendUsed /\ gap_count = 2
    /\ Len(GapLines) = 3
    /\ LineIdea(GapLines[1]) # << >>
    /\ LineIdea(GapLines[3]) = LineIdea(GapLines[1])
    /\ gideas = <<LineIdea(GapLines[1]), LineIdea(GapLines[2])>>

----------------------------------------------------------------------------
\* api.py: /analyze served by several threads of one process.  sys.stdout is
\* one attribute of the process; stream 0 is the stream in place at startup
\* and stream t is the StringIO buffer of thread t.

Threads == 1..NumThreads

ConcInit ==
    /\ sys_stdout = 0
    /\ tpc = [t \in Threads |-> "recv"]
    /\ saved = [t \in Threads |-> 0]
    /\ buf = [t \in Threads |-> << >>]
    /\ closed = [t \in Threads |-> FALSE]
    /\ prints = [t \in Threads |-> 0]
    /\ transcript = [t \in Threads |-> <<t>>]
    /\ tresult = [t \in Threads |-> << >>]
    /\ MainIdle /\ ExtractIdle /\ IdeasIdle /\ GapsIdle

\* analyze, lines 84-85: output = io.StringIO(); sys_stdout = sys.stdout
analyze_save(t) ==
    /\ tpc[t] = "recv"
    /\ saved' = [saved EXCEPT ![t] = sys_stdout]
    /\ tpc' = [tpc EXCEPT ![t] = "saved"]
    /\ UNCHANGED <<sys_stdout, buf, closed, prints, transcript, tresult>>
    /\ UNCHANGED <<evars, mvars, ivars, gvars>>

\* analyze, line 86: sys.stdout = output
analyze_redirect(t) ==
    /\ tpc[t] = "saved"
    /\ sys_stdout' = t
    /\ tpc' = [tpc EXCEPT ![t] = "run"]
    /\ UNCHANGED <<saved, buf, closed, prints, transcript, tresult>>
    /\ UNCHANGED <<evars, mvars, ivars, gvars>>

\* process_papers in thread t: a component logs a failure with print(),
\* which writes to whatever sys.stdout is now; a closed buffer makes print
\* raise ValueError, which process_papers turns into its error transcript
component_print(t) ==
    /\ tpc[t] = "run"
    /\ prints[t] < MaxPrints
    /\ prints' = [prints EXCEPT ![t] = @ + 1]
    /\ IF sys_stdout = 0
       THEN UNCHANGED <<buf, transcript, tpc>>
       ELSE IF closed[sys_stdout]
       THEN /\ transcript' = [transcript EXCEPT ![t] = <<t>>]
            /\ tpc' = [tpc EXCEPT ![t] = "finally"]
            /\ buf' = buf
       ELSE /\ buf' = [buf EXCEPT ![sys_stdout] = Append(@, t)]
            /\ UNCHANGED <<transcript, tpc>>
    /\ UNCHANGED <<sys_stdout, saved, closed, tresult>>
    /\ UNCHANGED <<evars, mvars, ivars, gvars>>

\* process_papers returns its transcript, lines 88-95
process_papers_return(t) ==
    /\ tpc[t] = "run"
    /\ tpc' = [tpc EXCEPT ![t] = "finally"]
    /\ UNCHANGED <<sys_stdout, saved, buf, closed, prints, transcript, tresult>>
    /\ UNCHANGED <<evars, mvars, ivars, gvars>>

\* analyze, line 97: sys.stdout = sys_stdout
analyze_restore(t) ==
    /\ tpc[t] = "finally"
    /\ sys_stdout' = saved[t]
    /\ tpc' = [tpc EXCEPT ![t] = "restored"]
    /\ UNCHANGED <<saved, buf, closed, prints, transcript, tresult>>
    /\ UNCHANGED <<evars, mvars, ivars, gvars>>

\* analyze, lines 98-100: getvalue, close, answer
analyze_respond(t) ==
    /\ tpc[t] = "restored"
    /\ LET printed_output == buf[t] IN
       tresult' = [tresult EXCEPT ![t] =
                      IF printed_output # << >> THEN printed_output ELSE transcript[t]]
    /\ closed' = [closed EXCEPT ![t] = TRUE]
    /\ tpc' = [tpc EXCEPT ![t] = "done"]
    /\ UNCHANGED <<sys_stdout, saved, buf, prints, transcript>>
    /\ UNCHANGED <<evars, mvars, ivars, gvars>>

ConcNext ==
    \E t \in Threads :
        \/ analyze_save(t)
        \/ analyze_redirect(t)
        \/ component_print(t)
        \/ process_papers_return(t)
        \/ analyze_restore(t)
        \/ analyze_respond(t)

SpecConc == ConcInit /\ [][ConcNext]_vars

----------------------------------------------------------------------------
\* The split of one Idea Generator text by both implementations

IdeasInit ==
    /\ ipc = "text"
    /\ ideas_text_in \in TokenSeqs(IdeaAlphabet, MaxIdeaLen)
    /\ num_ideas_in \in 1..MaxNumIdeas
    /\ api_ideas = << >> /\ ai_ideas = << >>
    /\ MainIdle /\ ExtractIdle /\ ConcIdle /\ GapsIdle

\* api.py generate_ideas on the text
IdeasApi ==
    /\ ipc = "text"
    /\ api_ideas' = parse_ideas(ideas_text_in)
    /\ ipc' = "api"
    /\ UNCHANGED <<ideas_text_in, num_ideas_in, ai_ideas>>
    /\ UNCHANGED <<evars, mvars, cvars, gvars>>

\* ai_random_ideas_api.py generate_ideas on the same text
IdeasAi ==
    /\ ipc = "api"
    /\ ai_ideas' = parse_ideas_ai(ideas_text_in, num_ideas_in)
    /\ ipc' = "both"
    /\ UNCHANGED <<ideas_text_in, num_ideas_in, api_ideas>>
    /\ UNCHANGED <<evars, mvars, cvars, gvars>>

IdeasNext == IdeasApi \/ IdeasAi

SpecIdeas == IdeasInit /\ [][IdeasNext]_vars

\* the numbered items "<digits>. ..." of the text
NumberedItems == StripEach(FindNumbered(ideas_text_in, 1))

\* C11: when the Idea Generator's text has a numbered item, the ideas
\* answered are exactly the numbered items, and no bulleted line is
\* answered as an idea of its own; this in both implementations.
NumberedPreferred ==
    (ipc = "both" /\ NumberedItems # << >>) =>
        /\ api_ideas = NumberedItems
        /\ ai_ideas = NumberedItems

====
